---- MODULE Spec2Model ----
(***************************************************************************)
(* The motion subsystem of hyakou: Motion Strategies (Linear, Circular,    *)
(* Stationary) writing into lock-guarded shared Transforms, the Animator   *)
(* wrapping one strategy, Renderer::update playing every Animator once a   *)
(* frame, and render-side readers of the same Transforms.                  *)
(*                                                                         *)
(* Numbers.  f32 values are modelled in fixed point:                       *)
(*   - progress and every position component are counted in units of      *)
(*     1/MAX_PROGRESS, so progress 1.0 is MAX_PROGRESS;                    *)
(*   - angles are counted in quarter turns, so 2*PI is TWO_PI = 4 and     *)
(*     cos/sin are exact;                                                  *)
(*   - delta times, speeds, distances and radii are integers.             *)
(***************************************************************************)
EXTENDS Integers, Sequences, FiniteSets, TLC

VARIABLES
    animators,            \* Renderer.animators: the registered MeshIds
    elapsed_time,         \* Animator.elapsed_time, per animator
    speed_multiplier,     \* Animator.speed_multiplier, per animator
    is_currently_playing, \* Animator.is_currently_playing, per animator
    linear,               \* LinearTrajectory's construction parameters
    progress,             \* LinearTrajectory.progress
    direction,            \* LinearTrajectory.direction
    circular,             \* CircularTrajectory's construction parameters
    angle,                \* CircularTrajectory.angle
    position,             \* Transform.position, per shared transform
    lock,                 \* the RwLock of each shared transform
    rpc,                  \* each render-side reader's place in its read
    upc,                  \* the update thread's place
    pending,              \* animators Renderer::update has still to play
    delta_time,           \* the frame's delta_time
    played,               \* play() calls made on each animator this frame
    current,              \* the animator whose animate() holds the write lock
    animate_calls,        \* MockAnimation.animate_calls: the deltas received
    reset_calls,          \* MockAnimation.reset_calls
    plays,                \* delta times the mock's Animator played since its reset
    last_call,            \* what the last Animator call did
    controller,           \* CameraController: yaw, pitch, sensitivity, smoothing
    mouse_delta           \* the MouseDelta about to be handed to rotate()

vars == <<animators, elapsed_time, speed_multiplier, is_currently_playing,
          linear, progress, direction, circular, angle, position, lock,
          rpc, upc, pending, delta_time, played, current,
          animate_calls, reset_calls, plays, last_call, controller,
          mouse_delta>>

----------------------------------------------------------------------------
(* Bounds of the model *)

\* largest frame delta time the host hands to Renderer::update
MaxDelta == 1
\* largest elapsed_time an Animator accumulates before it is reset
MaxElapsed == 2
\* most animate() calls and reset() calls the MockAnimation records
MaxCalls == 3
MaxResets == 2
\* number of render-side readers
NumReaders == 1
\* largest smoothed pointer delta, and the yaw beyond which the pointer is
\* not dragged any further the same way
MaxSmoothed == 20
MaxYaw == 40
\* farthest the camera's eye is moved from its target, in whole units
MaxDistance == 12

DeltaTimes == 0..MaxDelta
Readers == 1..NumReaders
\* speed multipliers Animators are created with: reversed, neutral, doubled
Multipliers == {-1, 1, 2}

----------------------------------------------------------------------------
(* Program constants *)

MAX_PROGRESS == 4
MIN_PROGRESS == -MAX_PROGRESS
ZERO_PROGRESS == 0
TWO_PI == 4
NEUTRAL_SPEED == 1

\* an animator is named after the strategy it wraps: a LinearTrajectory, a
\* CircularTrajectory, a StationaryTrajectory or the tests' MockAnimation
MeshIds == {"lin", "circ", "stat", "mock"}
\* the strategies that hold a shared transform
Transforms == {"lin", "circ"}

----------------------------------------------------------------------------
(* f32 and Vec3 helpers *)

Abs(x) == IF x < 0 THEN -x ELSE x

\* f32 division, rounded toward zero to the model's resolution
FDiv(a, b) ==
    LET q == Abs(a) \div Abs(b)
    IN IF (a < 0) = (b < 0) THEN q ELSE -q

\* f32 `%`: the remainder takes the sign of the dividend
FRem(a, b) == a - b * FDiv(a, b)

\* a clamp that lets the value through
clamp_nothing(x, lo, hi) == x

clamp(x, lo, hi) == IF x < lo THEN lo ELSE IF x > hi THEN hi ELSE x

Vec3(x, y, z) == <<x, y, z>>
VAdd(u, v) == <<u[1] + v[1], u[2] + v[2], u[3] + v[3]>>
VMul(v, k) == <<v[1] * k, v[2] * k, v[3] * k>>

\* cos and sin of an angle given in quarter turns
Cos(q) == CASE q % 4 = 0 -> 1 [] q % 4 = 1 -> 0 [] q % 4 = 2 -> -1 [] OTHER -> 0
Sin(q) == CASE q % 4 = 0 -> 0 [] q % 4 = 1 -> 1 [] q % 4 = 2 -> 0 [] OTHER -> -1

\* Vec3::normalize; at quarter-turn angles the vector already has length 1
normalize(v) == v

\* a direction vector with the Z axis up
calculate_direction_vector_z_up(yaw, pitch) ==
    normalize(Vec3(Cos(pitch) * Cos(yaw), Cos(pitch) * Sin(yaw), Sin(pitch)))

calculate_direction_vector(yaw_radians, pitch_radians) ==
    LET x == Cos(pitch_radians) * Cos(yaw_radians)
        y == Sin(pitch_radians)
        z == Cos(pitch_radians) * Sin(yaw_radians)
    IN normalize(Vec3(x, y, z))

----------------------------------------------------------------------------
(* The RwLock of a shared transform *)

Unlocked == [writer |-> FALSE, readers |-> 0]

\* a try_write that overlooks the readers
try_write_past_readers(l) == ~l.writer

\* RwLock::try_write succeeds only when nobody holds the lock
try_write(l) == ~l.writer /\ l.readers = 0

\* RwLock::read proceeds only when no writer holds the lock
can_read(l) == ~l.writer

----------------------------------------------------------------------------
(* LinearTrajectory *)

\* a constructor that turns away negative parameters as well
LinearNewPositive(start_position, yaw_radians, pitch_radians, distance, speed, looping, reversing) ==
    IF distance <= 0 \/ speed <= 0
    THEN [ok |-> FALSE]
    ELSE [ok |-> TRUE, start_position |-> start_position, yaw_radians |-> yaw_radians,
          pitch_radians |-> pitch_radians, distance |-> distance,
          speed |-> speed, progress |-> ZERO_PROGRESS, looping |-> looping,
          reversing |-> reversing, direction |-> "FORWARDS"]

\* LinearTrajectory::new_deconstructed_mesh: Err (ok is FALSE), or
\* the new strategy
LinearNew(start_position, yaw_radians, pitch_radians, distance, speed, looping, reversing) ==
    IF distance = 0 \/ speed = 0
    THEN [ok |-> FALSE]
    ELSE [ok |-> TRUE, start_position |-> start_position, yaw_radians |-> yaw_radians,
          pitch_radians |-> pitch_radians, distance |-> distance,
          speed |-> speed, progress |-> ZERO_PROGRESS, looping |-> looping,
          reversing |-> reversing, direction |-> "FORWARDS"]

\* progress advanced by one animate(delta), before clamping
Advance(lp, p, d, delta) ==
    LET step == FDiv(lp.speed * delta * MAX_PROGRESS, lp.distance)
    IN IF d = "FORWARDS" THEN p + step ELSE p - step

\* position = start_position + direction_vector * distance * progress
PathPosition(lp, p) ==
    VAdd(VMul(lp.start_position, MAX_PROGRESS),
         VMul(calculate_direction_vector(lp.yaw_radians, lp.pitch_radians),
              lp.distance * p))

\* an animate() that turns around only beyond the boundary, which the
\* clamped progress never is
LinearAnimateStrict(lp, p, d, delta) ==
    LET p1 == clamp(Advance(lp, p, d, delta), MIN_PROGRESS, MAX_PROGRESS)
        pos1 == PathPosition(lp, p1)
        d1 == IF p1 > MAX_PROGRESS /\ lp.reversing THEN "BACKWARDS" ELSE d
        d2 == IF p1 < MIN_PROGRESS /\ lp.looping THEN "FORWARDS" ELSE d1
        snap == p1 >= MAX_PROGRESS /\ lp.looping /\ ~lp.reversing
    IN [progress |-> IF snap THEN ZERO_PROGRESS ELSE p1,
        direction |-> d2,
        position |-> IF snap THEN VMul(lp.start_position, MAX_PROGRESS) ELSE pos1]

\* an animate() without the hard loop: progress stays at the boundary
LinearAnimateNoSnap(lp, p, d, delta) ==
    LET p1 == clamp(Advance(lp, p, d, delta), MIN_PROGRESS, MAX_PROGRESS)
        d1 == IF p1 >= MAX_PROGRESS /\ lp.reversing THEN "BACKWARDS" ELSE d
        d2 == IF p1 <= MIN_PROGRESS /\ lp.looping THEN "FORWARDS" ELSE d1
    IN [progress |-> p1, direction |-> d2, position |-> PathPosition(lp, p1)]

\* the body of LinearTrajectory::animate under the write lock
LinearAnimate(lp, p, d, delta) ==
    LET p1 == clamp(Advance(lp, p, d, delta), MIN_PROGRESS, MAX_PROGRESS)
        pos1 == PathPosition(lp, p1)
        d1 == IF p1 >= MAX_PROGRESS /\ lp.reversing THEN "BACKWARDS" ELSE d
        d2 == IF p1 <= MIN_PROGRESS /\ lp.looping THEN "FORWARDS" ELSE d1
        snap == p1 >= MAX_PROGRESS /\ lp.looping /\ ~lp.reversing
    IN [progress |-> IF snap THEN ZERO_PROGRESS ELSE p1,
        direction |-> d2,
        position |-> IF snap THEN VMul(lp.start_position, MAX_PROGRESS) ELSE pos1]

----------------------------------------------------------------------------
(* CircularTrajectory *)

\* a constructor that accepts every radius
CircularNewAnyRadius(radius, speed) ==
    IF speed <= 0
    THEN [ok |-> FALSE]
    ELSE [ok |-> TRUE, radius |-> radius, speed |-> speed, angle |-> 0]

\* CircularTrajectory::new_deconstructed_mesh: Err (ok is FALSE), or
\* the new strategy
CircularNew(radius, speed) ==
    IF radius <= 0 \/ speed <= 0
    THEN [ok |-> FALSE]
    ELSE [ok |-> TRUE, radius |-> radius, speed |-> speed, angle |-> 0]

\* a CircularTrajectory::animate that places the point at the angle it has
\* just advanced to on one axis only
CircularAnimateSkewed(cp, a, pos, target, delta) ==
    LET a1 == FRem(a + cp.speed * delta, TWO_PI)
        x == cp.radius * Cos(a) * MAX_PROGRESS
        z == cp.radius * Sin(a1) * MAX_PROGRESS
    IN [angle |-> a1,
        position |-> IF target # <<>>
                     THEN Vec3(target[1][1] + x, target[1][2], target[1][3] + z)
                     ELSE Vec3(x, pos[2], z)]

\* a CircularTrajectory::animate that lets the angle grow without wrapping
CircularAnimateUnwrapped(cp, a, pos, target, delta) ==
    LET x == cp.radius * Cos(a) * MAX_PROGRESS
        z == cp.radius * Sin(a) * MAX_PROGRESS
    IN [angle |-> a + cp.speed * delta,
        position |-> IF target # <<>>
                     THEN Vec3(target[1][1] + x, target[1][2], target[1][3] + z)
                     ELSE Vec3(x, pos[2], z)]

\* the body of CircularTrajectory::animate under the write lock; target is
\* <<>> for None and <<t>> for Some(t), t a position
CircularAnimate(cp, a, pos, target, delta) ==
    LET x == cp.radius * Cos(a) * MAX_PROGRESS
        z == cp.radius * Sin(a) * MAX_PROGRESS
    IN [angle |-> FRem(a + cp.speed * delta, TWO_PI),
        position |-> IF target # <<>>
                     THEN Vec3(target[1][1] + x, target[1][2], target[1][3] + z)
                     ELSE Vec3(x, pos[2], z)]

----------------------------------------------------------------------------
(* The camera's yaw and pitch: types/camera.rs, handlers/camera_controller.rs *)

\* camera angles are kept in units of ten degrees: PI is 18 of them
PI == 18
TAU == 2 * PI
PITCH_CLAMP == 89
to_radians(degrees) == FDiv(degrees * PI, 180)

\* smoothing factors are kept in units of 1/SMOOTHING_ONE; 0.35 is 7/20
SMOOTHING_ONE == 20
SMOOTHING_FACTOR == 7

smoothing_interpolation(prev_value, delta, precalculated_smoothing_factor, smoothing_factor) ==
    FDiv(prev_value * precalculated_smoothing_factor + delta * smoothing_factor,
         SMOOTHING_ONE)

\* Yaw::new, Pitch::new
AngleNew(value) == [value |-> value, previous_delta |-> 0]

\* a Yaw::add that adds the smoothed delta while it wraps
YawAddWrapping(yaw, value, one_minus_smoothing_value, smoothing_factor) ==
    LET smoothed_delta_interpolation ==
            smoothing_interpolation(yaw.previous_delta, value,
                                    one_minus_smoothing_value, smoothing_factor)
    IN [value |-> IF yaw.value > PI
                  THEN yaw.value - TAU + smoothed_delta_interpolation
                  ELSE yaw.value + smoothed_delta_interpolation,
        previous_delta |-> smoothed_delta_interpolation]

\* Yaw::add
YawAdd(yaw, value, one_minus_smoothing_value, smoothing_factor) ==
    LET smoothed_delta_interpolation ==
            smoothing_interpolation(yaw.previous_delta, value,
                                    one_minus_smoothing_value, smoothing_factor)
    IN [value |-> IF yaw.value > PI
                  THEN yaw.value - TAU
                  ELSE yaw.value + smoothed_delta_interpolation,
        previous_delta |-> smoothed_delta_interpolation]

\* a Pitch::add that forgets to clamp
PitchAddUnclamped(pitch, value, one_minus_smoothing_value, smoothing_factor) ==
    LET smoothed_interpolation_value ==
            smoothing_interpolation(pitch.previous_delta, value,
                                    one_minus_smoothing_value, smoothing_factor)
    IN [value |-> pitch.value - smoothed_interpolation_value,
        previous_delta |-> smoothed_interpolation_value]

\* Pitch::add
PitchAdd(pitch, value, one_minus_smoothing_value, smoothing_factor) ==
    LET smoothed_interpolation_value ==
            smoothing_interpolation(pitch.previous_delta, value,
                                    one_minus_smoothing_value, smoothing_factor)
    IN [value |-> clamp(pitch.value - smoothed_interpolation_value,
                        -to_radians(PITCH_CLAMP), to_radians(PITCH_CLAMP)),
        previous_delta |-> smoothed_interpolation_value]

\* camera positions, speeds and unit vectors are kept in units of
\* 1/CAMERA_ONE
CAMERA_ONE == 25

VSub(u, v) == <<u[1] - v[1], u[2] - v[2], u[3] - v[3]>>
VDiv(v, k) == <<FDiv(v[1], k), FDiv(v[2], k), FDiv(v[3], k)>>
Dot(u, v) == u[1] * v[1] + u[2] * v[2] + u[3] * v[3]

\* a point or a speed given in whole units
CameraPos(x, y, z) == VMul(Vec3(x, y, z), CAMERA_ONE)

\* sin of 0, 10, .. 90 degrees, in units of 1/CAMERA_ONE
SinTable == <<0, 4, 9, 13, 16, 19, 22, 23, 25, 25>>

\* f32::sin and f32::cos of a camera angle (units of ten degrees)
SinDeg(a) ==
    LET r == ((a % TAU) + TAU) % TAU
    IN IF r <= 9 THEN SinTable[r + 1]
       ELSE IF r <= 18 THEN SinTable[18 - r + 1]
       ELSE IF r <= 27 THEN -SinTable[r - 18 + 1]
       ELSE -SinTable[36 - r + 1]
CosDeg(a) == SinDeg(a + 9)

\* calculate_direction_vector at a camera's yaw and pitch; the vector is
\* kept as computed, its length 1 up to the resolution of the table
forward_vector(yaw, pitch) ==
    Vec3(FDiv(CosDeg(pitch) * CosDeg(yaw), CAMERA_ONE),
         SinDeg(pitch),
         FDiv(CosDeg(pitch) * SinDeg(yaw), CAMERA_ONE))

\* Camera::new: the fields the controller moves
CameraNew(eye, target, up) == [eye |-> eye, target |-> target, up |-> up]

\* Camera::move_camera_with_mouse(&yaw, &pitch): the camera looks from its
\* eye along the direction of yaw and pitch
move_camera_with_mouse(camera, yaw, pitch) ==
    [camera EXCEPT !.target = VAdd(camera.eye, forward_vector(yaw.value, pitch.value))]

\* the camera Renderer::new builds: 15 units in front of the origin
RendererCamera == CameraNew(CameraPos(0, 0, 15), CameraPos(0, 0, 0), CameraPos(0, 1, 0))

\* CameraController::new: the yaw, the pitch, the smoothing configuration,
\* the camera and the keys
CameraControllerNew(camera_speed, sensitivity, camera) ==
    [speed |-> camera_speed,
     camera |-> camera,
     yaw |-> AngleNew(FDiv(-PI, 2)),
     pitch |-> AngleNew(0),
     precalculated_smoothing |-> SMOOTHING_ONE - SMOOTHING_FACTOR,
     smoothing_factor |-> SMOOTHING_FACTOR,
     sensitivity |-> sensitivity,
     is_forward_pressed |-> FALSE,
     is_backward_pressed |-> FALSE,
     is_left_pressed |-> FALSE,
     is_right_pressed |-> FALSE]

\* the controller Renderer::new builds, before any pointer event
InitCamera(sensitivities) ==
    /\ \E sensitivity \in sensitivities :
          controller = CameraControllerNew(20 * CAMERA_ONE, sensitivity,
                                           RendererCamera)
    /\ mouse_delta = <<>>

----------------------------------------------------------------------------
(* Positions are kept in units of 1/MAX_PROGRESS *)
Pos(x, y, z) == VMul(Vec3(x, y, z), MAX_PROGRESS)

HasTransform(a) == a \in Transforms

NoCall == [op |-> "none", id |-> "none", result |-> "Ok",
           animate |-> 0, delta |-> 0, reset |-> 0, target |-> <<>>]

\* Animator::new, for every registered animator
InitAnimators(ids, multipliers) ==
    /\ animators = ids
    /\ elapsed_time = [a \in ids |-> 0]
    /\ speed_multiplier \in [ids -> multipliers]
    /\ is_currently_playing = [a \in ids |-> TRUE]
    /\ animate_calls = <<>>
    /\ reset_calls = 0
    /\ plays = <<>>
    /\ last_call = NoCall

\* the update thread and the readers before the first frame
InitThreads ==
    /\ lock = [t \in Transforms |-> Unlocked]
    /\ rpc = [r \in Readers |-> [at |-> "idle", t |-> "none"]]
    /\ upc = "idle"
    /\ pending = {}
    /\ delta_time = 0
    /\ played = [a \in animators |-> 0]
    /\ current = "none"

\* LinearTrajectory::new over a range of valid parameters
InitLinearStrategy(strategies) ==
    \E s \in strategies :
        /\ s.ok
        /\ linear = [f \in DOMAIN s \ {"ok", "progress", "direction"} |-> s[f]]
        /\ progress = s.progress
        /\ direction = s.direction

\* CircularTrajectory::new over a range of valid parameters
InitCircularStrategy(strategies) ==
    \E s \in strategies :
        /\ s.ok
        /\ circular = [f \in DOMAIN s \ {"ok", "angle"} |-> s[f]]
        /\ angle = s.angle

\* the one LinearTrajectory Renderer::new builds: the cube moved to (0,1,1),
\* a path from (0,1,0) along +X, distance 3, speed 3, looping and reversing
RendererLinear == LinearNew(Vec3(0, 1, 0), 0, 0, 3, 3, TRUE, TRUE)

\* yaw, pitch, distance and speed of the strategies tried: the renderer's,
\* the bounce test's (yaw 90 degrees, distance 4, speed 2), a pitched path
\* with a negative speed, and two the constructor rejects
LinearParameters ==
    {<<0, 0, 3, 3>>, <<1, 0, 4, 2>>, <<0, 1, 2, -1>>, <<0, 0, 0, 1>>,
     <<0, 0, 1, 0>>}

LinearStrategies ==
    {LinearNew(Vec3(0, 1, 0), q[1], q[2], q[3], q[4], l, r) :
        q \in LinearParameters, l \in BOOLEAN, r \in BOOLEAN}

CircularStrategies ==
    {CircularNew(rs[1], rs[2]) : rs \in {<<5, 1>>, <<2, 3>>, <<0, 1>>}}

----------------------------------------------------------------------------
(* Renderer::update, Animator::play and the strategies' animate() *)

\* what an action leaves alone, by owner
camera_state == <<controller, mouse_delta>>
constructed == <<animators, speed_multiplier, linear, circular, camera_state>>
mock == <<animate_calls, reset_calls, plays>>

\* Renderer::update begins a frame: every registered animator is to be played
UpdateBegin(dt) ==
    /\ upc = "idle"
    /\ \A a \in animators : elapsed_time[a] + dt <= MaxElapsed
    /\ "mock" \in animators => Len(animate_calls) < MaxCalls
    /\ upc' = "iterating"
    /\ pending' = animators
    /\ delta_time' = dt
    /\ played' = [a \in animators |-> 0]
    /\ UNCHANGED <<constructed, mock, elapsed_time, is_currently_playing,
                   progress, direction, angle, position, lock, rpc, current,
                   last_call>>

\* a play() that forgets the speed multiplier
AnimateDeltaUnscaled(a) == delta_time

\* the delta Animator::play hands to the strategy's animate()
AnimateDelta(a) == speed_multiplier[a] * delta_time

\* a play() whose Err ends the frame: the rest of the animators are skipped
ReturnedOrAborted(a, result, animated) ==
    /\ pending' = IF result = "Err" THEN {} ELSE pending \ {a}
    /\ last_call' = [op |-> "play", id |-> a, result |-> result,
                     animate |-> animated,
                     delta |-> IF animated = 0 THEN 0
                               ELSE speed_multiplier[a] * delta_time,
                     reset |-> 0, target |-> <<>>]

\* play() returns: the animator is done for this frame (an Err is only logged)
Returned(a, result, animated) ==
    /\ pending' = pending \ {a}
    /\ last_call' = [op |-> "play", id |-> a, result |-> result,
                     animate |-> animated,
                     delta |-> IF animated = 0 THEN 0 ELSE AnimateDelta(a),
                     reset |-> 0, target |-> <<>>]

\* a paused play() that still accumulates the elapsed time
PlayPausedAccumulating(a) ==
    /\ upc = "iterating"
    /\ a \in pending
    /\ ~is_currently_playing[a]
    /\ played' = [played EXCEPT ![a] = @ + 1]
    /\ elapsed_time' = [elapsed_time EXCEPT ![a] = @ + delta_time]
    /\ Returned(a, "Ok", 0)
    /\ UNCHANGED <<constructed, mock, is_currently_playing,
                   progress, direction, angle, position, lock, rpc, upc,
                   delta_time, current>>

\* Animator::play on a paused animator
PlayPaused(a) ==
    /\ upc = "iterating"
    /\ a \in pending
    /\ ~is_currently_playing[a]
    /\ played' = [played EXCEPT ![a] = @ + 1]
    /\ Returned(a, "Ok", 0)
    /\ UNCHANGED <<constructed, mock, elapsed_time, is_currently_playing,
                   progress, direction, angle, position, lock, rpc, upc,
                   delta_time, current>>

\* a play() that takes the delta time back when the strategy fails
PlayBeginRollingBack(a) ==
    /\ upc = "iterating"
    /\ a \in pending
    /\ is_currently_playing[a]
    /\ played' = [played EXCEPT ![a] = @ + 1]
    /\ elapsed_time' =
         IF HasTransform(a) /\ ~try_write(lock[a])
         THEN elapsed_time
         ELSE [elapsed_time EXCEPT ![a] = @ + delta_time]
    /\ IF a = "mock"
       THEN /\ animate_calls' = Append(animate_calls, AnimateDelta(a))
            /\ plays' = Append(plays, delta_time)
       ELSE UNCHANGED <<animate_calls, plays>>
    /\ IF ~HasTransform(a)
       THEN /\ Returned(a, "Ok", 1)
            /\ UNCHANGED <<lock, upc, current>>
       ELSE IF try_write(lock[a])
       THEN /\ lock' = [lock EXCEPT ![a].writer = TRUE]
            /\ upc' = "animating"
            /\ current' = a
            /\ UNCHANGED <<pending, last_call>>
       ELSE /\ Returned(a, "Err", 1)
            /\ UNCHANGED <<lock, upc, current>>
    /\ UNCHANGED <<constructed, is_currently_playing, progress, direction,
                   angle, position, rpc, delta_time, reset_calls>>

\* Animator::play on a playing animator, up to the strategy's try_write
PlayBegin(a) ==
    /\ upc = "iterating"
    /\ a \in pending
    /\ is_currently_playing[a]
    /\ played' = [played EXCEPT ![a] = @ + 1]
    /\ elapsed_time' = [elapsed_time EXCEPT ![a] = @ + delta_time]
    /\ IF a = "mock"
       THEN \* MockAnimation::animate
            /\ animate_calls' = Append(animate_calls, AnimateDelta(a))
            /\ plays' = Append(plays, delta_time)
       ELSE UNCHANGED <<animate_calls, plays>>
    /\ IF ~HasTransform(a)
       THEN \* StationaryTrajectory::animate, MockAnimation::animate
            /\ Returned(a, "Ok", 1)
            /\ UNCHANGED <<lock, upc, current>>
       ELSE IF try_write(lock[a])
       THEN /\ lock' = [lock EXCEPT ![a].writer = TRUE]
            /\ upc' = "animating"
            /\ current' = a
            /\ UNCHANGED <<pending, last_call>>
       ELSE /\ Returned(a, "Err", 1)
            /\ UNCHANGED <<lock, upc, current>>
    /\ UNCHANGED <<constructed, is_currently_playing, progress, direction,
                   angle, position, rpc, delta_time, reset_calls>>

\* the strategy's animate() under the write lock, the guard's drop, and
\* play()'s Ok
AnimateLocked ==
    /\ upc = "animating"
    /\ IF current = "lin"
       THEN LET n == LinearAnimate(linear, progress, direction,
                                   AnimateDelta(current))
            IN /\ progress' = n.progress
               /\ direction' = n.direction
               /\ position' = [position EXCEPT !["lin"] = n.position]
               /\ UNCHANGED angle
       ELSE LET n == CircularAnimate(circular, angle, position["circ"], <<>>,
                                     AnimateDelta(current))
            IN /\ angle' = n.angle
               /\ position' = [position EXCEPT !["circ"] = n.position]
               /\ UNCHANGED <<progress, direction>>
    /\ lock' = [lock EXCEPT ![current].writer = FALSE]
    /\ Returned(current, "Ok", 1)
    /\ upc' = "iterating"
    /\ current' = "none"
    /\ UNCHANGED <<constructed, mock, elapsed_time, is_currently_playing,
                   rpc, delta_time, played>>

\* Renderer::update returns once every animator has been played; the
\* results of the play() calls were consumed (logged) inside the loop
UpdateEnd ==
    /\ upc = "iterating"
    /\ pending = {}
    /\ upc' = "idle"
    /\ delta_time' = 0
    /\ last_call' = NoCall
    /\ UNCHANGED <<constructed, mock, elapsed_time, is_currently_playing,
                   progress, direction, angle, position, lock, rpc, pending,
                   played, current>>

\* one step of the update thread inside Renderer::update
UpdateStep ==
    \/ \E a \in animators : PlayPaused(a)
    \/ \E a \in animators : PlayBegin(a)
    \/ AnimateLocked
    \/ UpdateEnd

----------------------------------------------------------------------------
(* Animator::pause, resume and reset, called between frames *)

Called(op, a, resets) ==
    last_call' = [op |-> op, id |-> a, result |-> "Ok", animate |-> 0,
                  delta |-> 0, reset |-> resets, target |-> <<>>]

\* a pause() that also rewinds the elapsed time
pause_and_rewind(a) ==
    /\ upc = "idle"
    /\ is_currently_playing' = [is_currently_playing EXCEPT ![a] = FALSE]
    /\ elapsed_time' = [elapsed_time EXCEPT ![a] = 0]
    /\ Called("pause", a, 0)
    /\ UNCHANGED <<constructed, mock, progress, direction,
                   angle, position, lock, rpc, upc, pending, delta_time,
                   played, current>>

pause(a) ==
    /\ upc = "idle"
    /\ is_currently_playing' = [is_currently_playing EXCEPT ![a] = FALSE]
    /\ Called("pause", a, 0)
    /\ UNCHANGED <<constructed, mock, elapsed_time, progress, direction,
                   angle, position, lock, rpc, upc, pending, delta_time,
                   played, current>>

resume(a) ==
    /\ upc = "idle"
    /\ is_currently_playing' = [is_currently_playing EXCEPT ![a] = TRUE]
    /\ Called("resume", a, 0)
    /\ UNCHANGED <<constructed, mock, elapsed_time, progress, direction,
                   angle, position, lock, rpc, upc, pending, delta_time,
                   played, current>>

\* LinearTrajectory::reset: the position is written only if try_write succeeds
LinearReset(lp, pos, l) ==
    [progress |-> ZERO_PROGRESS,
     direction |-> "FORWARDS",
     position |-> IF try_write(l) THEN VMul(lp.start_position, MAX_PROGRESS)
                  ELSE pos]

\* CircularTrajectory::reset
CircularReset(a) == 0

\* the strategy's reset(), once: Linear, Circular, Stationary (empty), mock
StrategyReset(a) ==
    /\ IF a = "lin"
       THEN LET n == LinearReset(linear, position["lin"], lock["lin"])
            IN /\ progress' = n.progress
               /\ direction' = n.direction
               /\ position' = [position EXCEPT !["lin"] = n.position]
       ELSE UNCHANGED <<progress, direction, position>>
    /\ angle' = IF a = "circ" THEN CircularReset(angle) ELSE angle
    /\ reset_calls' = IF a = "mock" THEN reset_calls + 1 ELSE reset_calls

\* a reset() that pauses the animator as well
reset_and_stop(a) ==
    /\ upc = "idle"
    /\ a = "mock" => reset_calls < MaxResets
    /\ elapsed_time' = [elapsed_time EXCEPT ![a] = 0]
    /\ is_currently_playing' = [is_currently_playing EXCEPT ![a] = FALSE]
    /\ StrategyReset(a)
    /\ plays' = IF a = "mock" THEN <<>> ELSE plays
    /\ Called("reset", a, 1)
    /\ UNCHANGED <<constructed, lock, rpc, upc,
                   pending, delta_time, played, current, animate_calls>>

\* Animator::reset: zero the elapsed time, then the strategy's reset()
reset(a) ==
    /\ upc = "idle"
    /\ a = "mock" => reset_calls < MaxResets
    /\ elapsed_time' = [elapsed_time EXCEPT ![a] = 0]
    /\ StrategyReset(a)
    /\ plays' = IF a = "mock" THEN <<>> ELSE plays
    /\ Called("reset", a, 1)
    /\ UNCHANGED <<constructed, is_currently_playing, lock, rpc, upc,
                   pending, delta_time, played, current, animate_calls>>

----------------------------------------------------------------------------
(* The render-side readers: transform.read(), get_matrix(), guard dropped *)

\* what no reader touches
written == <<constructed, mock, elapsed_time, is_currently_playing, progress,
             direction, angle, position, upc, pending, delta_time, played,
             current, last_call>>

\* RwLock::read: the reader gets the lock, or waits for the writer
ReadBegin(r, t) ==
    /\ rpc[r].at = "idle"
    /\ IF can_read(lock[t])
       THEN /\ lock' = [lock EXCEPT ![t].readers = @ + 1]
            /\ rpc' = [rpc EXCEPT ![r] = [at |-> "reading", t |-> t]]
       ELSE /\ rpc' = [rpc EXCEPT ![r] = [at |-> "waiting", t |-> t]]
            /\ UNCHANGED lock
    /\ UNCHANGED written

\* a waiting reader gets the lock once the writer has released it
ReadWake(r) ==
    /\ rpc[r].at = "waiting"
    /\ can_read(lock[rpc[r].t])
    /\ lock' = [lock EXCEPT ![rpc[r].t].readers = @ + 1]
    /\ rpc' = [rpc EXCEPT ![r].at = "reading"]
    /\ UNCHANGED written

\* the read guard is dropped at the end of the statement
ReadEnd(r) ==
    /\ rpc[r].at = "reading"
    /\ lock' = [lock EXCEPT ![rpc[r].t].readers = @ - 1]
    /\ rpc' = [rpc EXCEPT ![r] = [at |-> "idle", t |-> "none"]]
    /\ UNCHANGED written

----------------------------------------------------------------------------
(* Specifications *)

Next ==
    \/ \E dt \in DeltaTimes : UpdateBegin(dt)
    \/ UpdateStep
    \/ \E a \in animators : pause(a)
    \/ \E a \in animators : resume(a)
    \/ \E a \in animators : reset(a)
    \/ \E r \in Readers, t \in Transforms \cap animators : ReadBegin(r, t)
    \/ \E r \in Readers : ReadWake(r)
    \/ \E r \in Readers : ReadEnd(r)

\* the scene of Renderer::new (a LinearTrajectory behind an Animator created
\* with NEUTRAL_SPEED) with a CircularTrajectory registered beside it
Init ==
    /\ InitAnimators({"lin", "circ"}, {NEUTRAL_SPEED})
    /\ InitThreads
    /\ InitCamera({1})
    /\ InitLinearStrategy({RendererLinear})
    /\ InitCircularStrategy({CircularNew(5, 1)})
    /\ position = [t \in Transforms |-> Pos(0, 1, 1)]

Spec == Init /\ [][Next]_vars

\* one LinearTrajectory behind an Animator, over a range of parameters
InitLinear ==
    /\ InitAnimators({"lin"}, Multipliers)
    /\ InitThreads
    /\ InitCamera({1})
    /\ InitLinearStrategy(LinearStrategies)
    /\ InitCircularStrategy({CircularNew(5, 1)})
    /\ position = [t \in Transforms |-> Pos(0, 1, 1)]

SpecLinear == InitLinear /\ [][Next]_vars

\* an Animator around the tests' MockAnimation, as in the Animator's tests
InitMock ==
    /\ InitAnimators({"mock"}, Multipliers)
    /\ InitThreads
    /\ InitCamera({1})
    /\ InitLinearStrategy({RendererLinear})
    /\ InitCircularStrategy({CircularNew(5, 1)})
    /\ position = [t \in Transforms |-> Pos(0, 1, 1)]

\* no shared transform is involved: the update thread's steps alone
NextMock ==
    \/ \E dt \in DeltaTimes : UpdateBegin(dt)
    \/ \E a \in animators : PlayPaused(a)
    \/ \E a \in animators : PlayBegin(a)
    \/ UpdateEnd
    \/ \E a \in animators : pause(a)
    \/ \E a \in animators : resume(a)
    \/ \E a \in animators : reset(a)

SpecMock == InitMock /\ [][NextMock]_vars

----------------------------------------------------------------------------
(* The strategies called directly, as their unit tests call them: one
   strategy is constructed, then animate() and reset() are called on it
   while a reader may hold its transform *)

\* no strategy has been constructed
NotBuilt == [ok |-> FALSE]

\* yaw, pitch, distance and speed handed to LinearTrajectory's constructor:
\* those of LinearParameters, a negative distance, and a yaw and a pitch
\* of 90 degrees together
LinearArguments == LinearParameters \cup {<<0, 0, -3, 3>>, <<1, 1, 2, 1>>}

\* radius and speed handed to CircularTrajectory's constructor
CircularArguments ==
    {<<5, 1>>, <<2, 3>>, <<0, 1>>, <<-1, 1>>, <<2, 0>>, <<2, -1>>}

\* the deltas of direct animate() calls: a frame's, or one a negative
\* speed multiplier has produced
Deltas == {-1} \cup DeltaTimes

\* the target of an animate() call: None, or Some(transform) at a position
Targets == {<<>>, <<Pos(10, 5, 20)>>}

\* Transform::default() as in the unit tests, or the translated mesh of
\* Renderer::new
InitialPositions == {Pos(0, 0, 0), Pos(0, 1, 1)}

Strategies == {"lin", "circ", "stat"}

\* the strategy exists: a StationaryTrajectory is a struct literal
Built(s) ==
    CASE s = "lin" -> linear.ok
      [] s = "circ" -> circular.ok
      [] OTHER -> ~linear.ok /\ ~circular.ok

\* what a direct call on a strategy leaves alone
animator_state == <<animators, elapsed_time, speed_multiplier,
                    is_currently_playing, mock, pending, played,
                    camera_state>>

\* the result of a constructor or of a direct call
Result(op, s, result, animated, delta, resets, target) ==
    last_call' = [op |-> op, id |-> s, result |-> result,
                  animate |-> animated, delta |-> delta, reset |-> resets,
                  target |-> target]

\* LinearTrajectory::new_deconstructed_mesh, called with a mesh's transform
NewLinear(q, looping, reversing) ==
    /\ upc = "idle"
    /\ ~linear.ok
    /\ ~circular.ok
    /\ LET s == LinearNew(Vec3(0, 1, 0), q[1], q[2], q[3], q[4], looping, reversing)
       IN IF s.ok
          THEN /\ linear' = [f \in DOMAIN s \ {"progress", "direction"} |-> s[f]]
               /\ progress' = s.progress
               /\ direction' = s.direction
               /\ Result("new", "lin", "Ok", 0, 0, 0, <<>>)
          ELSE /\ Result("new", "lin", "Err", 0, 0, 0, <<>>)
               /\ UNCHANGED <<linear, progress, direction>>
    /\ UNCHANGED <<animator_state, circular, angle, position, lock, rpc,
                   upc, delta_time, current>>

\* CircularTrajectory::new_deconstructed_mesh, called with a mesh's transform
NewCircular(rs) ==
    /\ upc = "idle"
    /\ ~linear.ok
    /\ ~circular.ok
    /\ LET s == CircularNew(rs[1], rs[2])
       IN IF s.ok
          THEN /\ circular' = [f \in DOMAIN s \ {"angle"} |-> s[f]]
               /\ angle' = s.angle
               /\ Result("new", "circ", "Ok", 0, 0, 0, <<>>)
          ELSE /\ Result("new", "circ", "Err", 0, 0, 0, <<>>)
               /\ UNCHANGED <<circular, angle>>
    /\ UNCHANGED <<animator_state, linear, progress, direction, position,
                   lock, rpc, upc, delta_time, current>>

\* the strategy's animate(target, delta) up to its try_write: no transform
\* to lock (Stationary), the write guard, or Err
AnimateCall(s, target, delta) ==
    /\ upc = "idle"
    /\ Built(s)
    /\ delta_time' = delta
    /\ IF ~HasTransform(s)
       THEN /\ Result("animate", s, "Ok", 1, delta, 0, target)
            /\ UNCHANGED <<lock, upc, current>>
       ELSE IF try_write(lock[s])
       THEN /\ lock' = [lock EXCEPT ![s].writer = TRUE]
            /\ upc' = "calling"
            /\ current' = s
            /\ Result("animate", s, "Locked", 1, delta, 0, target)
       ELSE /\ Result("animate", s, "Err", 1, delta, 0, target)
            /\ UNCHANGED <<lock, upc, current>>
    /\ UNCHANGED <<animator_state, linear, progress, direction, circular,
                   angle, position, rpc>>

\* the body of the strategy's animate() under the write lock, the guard's
\* drop and Ok
AnimateReturn ==
    /\ upc = "calling"
    /\ IF current = "lin"
       THEN LET n == LinearAnimate(linear, progress, direction, delta_time)
            IN /\ progress' = n.progress
               /\ direction' = n.direction
               /\ position' = [position EXCEPT !["lin"] = n.position]
               /\ UNCHANGED angle
       ELSE LET n == CircularAnimate(circular, angle, position["circ"],
                                     last_call.target, delta_time)
            IN /\ angle' = n.angle
               /\ position' = [position EXCEPT !["circ"] = n.position]
               /\ UNCHANGED <<progress, direction>>
    /\ lock' = [lock EXCEPT ![current].writer = FALSE]
    /\ last_call' = [last_call EXCEPT !.result = "Ok"]
    /\ upc' = "idle"
    /\ current' = "none"
    /\ UNCHANGED <<animator_state, linear, circular, rpc, delta_time>>

\* how many reset() calls in a row this one makes it, up to two
ResetsInARow(s) ==
    IF last_call.op = "reset" /\ last_call.id = s THEN 2 ELSE 1

\* the strategy's reset(): Linear, Circular, Stationary (empty)
ResetCall(s) ==
    /\ upc = "idle"
    /\ Built(s)
    /\ IF s = "lin"
       THEN LET n == LinearReset(linear, position["lin"], lock["lin"])
            IN /\ progress' = n.progress
               /\ direction' = n.direction
               /\ position' = [position EXCEPT !["lin"] = n.position]
       ELSE UNCHANGED <<progress, direction, position>>
    /\ angle' = IF s = "circ" THEN CircularReset(angle) ELSE angle
    /\ Result("reset", s, "Ok", 0, 0, ResetsInARow(s), <<>>)
    /\ UNCHANGED <<animator_state, linear, circular, lock, rpc, upc,
                   delta_time, current>>

\* nothing is constructed yet; the transforms are where their meshes are
InitStrategy ==
    /\ InitAnimators({}, {NEUTRAL_SPEED})
    /\ InitThreads
    /\ InitCamera({1})
    /\ linear = NotBuilt
    /\ progress = ZERO_PROGRESS
    /\ direction = "FORWARDS"
    /\ circular = NotBuilt
    /\ angle = 0
    /\ \E p \in InitialPositions : position = [t \in Transforms |-> p]

NextStrategy ==
    \/ \E q \in LinearArguments, l \in BOOLEAN, r \in BOOLEAN : NewLinear(q, l, r)
    \/ \E rs \in CircularArguments : NewCircular(rs)
    \/ \E s \in Strategies, t \in Targets, d \in Deltas : AnimateCall(s, t, d)
    \/ AnimateReturn
    \/ \E s \in Strategies : ResetCall(s)
    \/ \E r \in Readers, t \in Transforms : ReadBegin(r, t)
    \/ \E r \in Readers : ReadWake(r)
    \/ \E r \in Readers : ReadEnd(r)

SpecStrategy == InitStrategy /\ [][NextStrategy]_vars

\* a LinearTrajectory, once constructed, driven by animate(None, delta)
\* calls with one fixed positive delta, nobody else holding its transform
InitBounce ==
    /\ InitAnimators({}, {NEUTRAL_SPEED})
    /\ InitCamera({1})
    /\ lock = [t \in Transforms |-> Unlocked]
    /\ rpc = [r \in Readers |-> [at |-> "idle", t |-> "none"]]
    /\ upc = "idle"
    /\ pending = {}
    /\ played = [a \in animators |-> 0]
    /\ current = "none"
    /\ \E q \in LinearArguments, l \in BOOLEAN, r \in BOOLEAN :
          LET s == LinearNew(Vec3(0, 1, 0), q[1], q[2], q[3], q[4], l, r)
          IN /\ s.ok
             /\ linear = [f \in DOMAIN s \ {"progress", "direction"} |-> s[f]]
             /\ progress = s.progress
             /\ direction = s.direction
    /\ circular = NotBuilt
    /\ angle = 0
    /\ \E p \in InitialPositions : position = [t \in Transforms |-> p]
    /\ \E d \in Deltas : d > 0 /\ delta_time = d

\* the next call of the driving loop
BounceCall == AnimateCall("lin", <<>>, delta_time)

NextBounce ==
    \/ BounceCall
    \/ AnimateReturn

\* the loop keeps calling: a call that can be made is made, a call that has
\* the lock returns
SpecBounce == InitBounce /\ [][NextBounce]_vars /\ WF_vars(NextBounce)

----------------------------------------------------------------------------
(* A frame of Renderer::update with nobody else running: the animators are
   played one after the other, in the order the HashMap yields them *)

\* what the play() calls of a frame read and write, and their results
FrameState ==
    [elapsed_time |-> elapsed_time, progress |-> progress,
     direction |-> direction, angle |-> angle, position |-> position,
     result |-> [a \in animators |-> "none"]]

\* a play() whose strategies all write the transform of "lin"
PlayOnOneHandle(S, a) ==
    IF ~is_currently_playing[a] THEN [S EXCEPT !.result[a] = "Ok"]
    ELSE LET S1 == [S EXCEPT !.elapsed_time[a] = @ + delta_time]
         IN IF ~try_write(lock["lin"]) THEN [S1 EXCEPT !.result[a] = "Err"]
            ELSE IF a = "lin"
            THEN LET n == LinearAnimate(linear, S1.progress, S1.direction,
                                        AnimateDelta(a))
                 IN [S1 EXCEPT !.progress = n.progress,
                               !.direction = n.direction,
                               !.position["lin"] = n.position,
                               !.result[a] = "Ok"]
            ELSE LET n == CircularAnimate(circular, S1.angle,
                                          S1.position["lin"], <<>>,
                                          AnimateDelta(a))
                 IN [S1 EXCEPT !.angle = n.angle,
                               !.position["lin"] = n.position,
                               !.result[a] = "Ok"]

\* Animator::play(delta_time) from beginning to end, the strategy's
\* animate() included
PlayOn(S, a) ==
    IF ~is_currently_playing[a] THEN [S EXCEPT !.result[a] = "Ok"]
    ELSE LET S1 == [S EXCEPT !.elapsed_time[a] = @ + delta_time]
         IN IF ~try_write(lock[a]) THEN [S1 EXCEPT !.result[a] = "Err"]
            ELSE IF a = "lin"
            THEN LET n == LinearAnimate(linear, S1.progress, S1.direction,
                                        AnimateDelta(a))
                 IN [S1 EXCEPT !.progress = n.progress,
                               !.direction = n.direction,
                               !.position["lin"] = n.position,
                               !.result[a] = "Ok"]
            ELSE LET n == CircularAnimate(circular, S1.angle,
                                          S1.position["circ"], <<>>,
                                          AnimateDelta(a))
                 IN [S1 EXCEPT !.angle = n.angle,
                               !.position["circ"] = n.position,
                               !.result[a] = "Ok"]

\* the animators played in a given order
RECURSIVE PlayAll(_, _)
PlayAll(S, order) ==
    IF order = <<>> THEN S ELSE PlayAll(PlayOn(S, Head(order)), Tail(order))

\* the orders values_mut() can yield the two animators in
Orders == {<<"lin", "circ">>, <<"circ", "lin">>}

\* the for_each of Renderer::update over the animators in one order
PlayFrame(order) ==
    /\ upc = "iterating"
    /\ pending = animators
    /\ LET S == PlayAll(FrameState, order)
       IN /\ elapsed_time' = S.elapsed_time
          /\ progress' = S.progress
          /\ direction' = S.direction
          /\ angle' = S.angle
          /\ position' = S.position
          /\ last_call' = [NoCall EXCEPT !.op = "play"]
    /\ pending' = {}
    /\ played' = [a \in animators |-> 1]
    /\ UNCHANGED <<constructed, mock, is_currently_playing, lock, rpc, upc,
                   delta_time, current>>

\* the Renderer's LinearTrajectory and a hard-looping one
OrderStrategies ==
    {RendererLinear, LinearNew(Vec3(0, 1, 0), 1, 0, 4, 2, TRUE, FALSE)}

\* two animators over distinct transforms, each reversed or doubled
InitOrder ==
    /\ InitAnimators({"lin", "circ"}, {-1, 2})
    /\ InitThreads
    /\ InitCamera({1})
    /\ InitLinearStrategy(OrderStrategies)
    /\ InitCircularStrategy({CircularNew(5, 1)})
    /\ position = [t \in Transforms |-> Pos(0, 1, 1)]

\* whole frames, with pause, resume and the readers between them
NextOrder ==
    \/ \E dt \in DeltaTimes : UpdateBegin(dt)
    \/ \E order \in Orders : PlayFrame(order)
    \/ UpdateEnd
    \/ \E a \in animators : pause(a)
    \/ \E a \in animators : resume(a)
    \/ \E r \in Readers, t \in Transforms : ReadBegin(r, t)
    \/ \E r \in Readers : ReadEnd(r)

SpecOrder == InitOrder /\ [][NextOrder]_vars

----------------------------------------------------------------------------
(* CameraController::rotate and the pointer events that drive it *)

\* raw pointer deltas per event, small and extreme, in both directions
RawDeltas == {-10, -1, 0, 1, 10}
\* sensitivities a controller is built with: inverted, plain, doubled
Sensitivities == {-1, 1, 2}
\* smoothing factors set at run time: 0, the default 0.35, 1 and 2
SmoothingFactors == {0, SMOOTHING_FACTOR, SMOOTHING_ONE, 2 * SMOOTHING_ONE}
\* action, button and is_mouse_on_window of the events tried
PointerStates ==
    {<<"CLICKED", "LEFT", TRUE>>, <<"CLICKED", "LEFT", FALSE>>,
     <<"RELEASED", "LEFT", TRUE>>, <<"NO_ACTION", "RIGHT", TRUE>>,
     <<"CLICKED", "RIGHT", TRUE>>}
\* the left button held over the window
Dragging == {<<"CLICKED", "LEFT", TRUE>>}

\* everything but the camera
scene_state == <<animators, elapsed_time, speed_multiplier,
                 is_currently_playing, linear, progress, direction, circular,
                 angle, position, lock, rpc, upc, pending, delta_time, played,
                 current, animate_calls, reset_calls, plays, last_call>>

\* the smoothed delta the next add() of `axis` computes from a raw delta
Smoothed(axis, raw) ==
    smoothing_interpolation(controller[axis].previous_delta,
                            raw * controller.sensitivity,
                            controller.precalculated_smoothing,
                            controller.smoothing_factor)

\* the MouseDelta of a pointer event (the tests' create_mouse_delta); the
\* deltas are kept within the bounds of the model: a yaw beyond MaxYaw is
\* not pushed further out by the raw delta
MouseMoved(dx, dy, pointer) ==
    /\ mouse_delta = <<>>
    /\ Abs(Smoothed("yaw", dx)) <= MaxSmoothed
    /\ Abs(Smoothed("pitch", dy)) <= MaxSmoothed
    /\ \/ Abs(controller.yaw.value) <= MaxYaw
       \/ dx * controller.sensitivity * controller.yaw.value <= 0
    /\ mouse_delta' = <<[delta_position |-> <<dx, dy>>,
                         action |-> pointer[1],
                         button |-> pointer[2],
                         is_mouse_on_window |-> pointer[3]]>>
    /\ UNCHANGED <<controller, scene_state>>

\* CameraController::rotate(&mouse_delta)
rotate ==
    /\ mouse_delta # <<>>
    /\ LET md == mouse_delta[1]
           yaw == YawAdd(controller.yaw,
                         md.delta_position[1] * controller.sensitivity,
                         controller.precalculated_smoothing,
                         controller.smoothing_factor)
           pitch == PitchAdd(controller.pitch,
                             md.delta_position[2] * controller.sensitivity,
                             controller.precalculated_smoothing,
                             controller.smoothing_factor)
       IN controller' =
            IF md.is_mouse_on_window /\ md.action = "CLICKED"
            THEN [controller EXCEPT
                    !.yaw = yaw,
                    !.pitch = pitch,
                    !.camera = move_camera_with_mouse(controller.camera, yaw, pitch)]
            ELSE controller
    /\ mouse_delta' = <<>>
    /\ UNCHANGED scene_state

\* CameraController::update_smoothing_factor
update_smoothing_factor(smoothing_factor) ==
    /\ mouse_delta = <<>>
    /\ controller' = [controller EXCEPT
                        !.smoothing_factor = smoothing_factor,
                        !.precalculated_smoothing =
                            SMOOTHING_ONE - smoothing_factor]
    /\ UNCHANGED <<mouse_delta, scene_state>>

----------------------------------------------------------------------------
(* CameraController::handle_key and CameraController::update_camera *)

Cross(u, v) ==
    <<u[2] * v[3] - u[3] * v[2], u[3] * v[1] - u[1] * v[3], u[1] * v[2] - u[2] * v[1]>>

\* the integer square root, found by bisection between lo and hi
RECURSIVE SqrtBetween(_, _, _)
SqrtBetween(n, lo, hi) ==
    IF lo >= hi THEN lo
    ELSE LET mid == (lo + hi + 1) \div 2
         IN IF mid * mid <= n THEN SqrtBetween(n, mid, hi)
            ELSE SqrtBetween(n, lo, mid - 1)

\* Vec3::length
Length(v) == SqrtBetween(Dot(v, v), 0, Abs(v[1]) + Abs(v[2]) + Abs(v[3]))

\* Vec3::normalize, a unit vector in units of 1/CAMERA_ONE
camera_normalize(v) == VDiv(VMul(v, CAMERA_ONE), Length(v))

\* the product of a unit vector (or a direction) and a length
Scaled(v, k) == VDiv(VMul(v, k), CAMERA_ONE)

\* the locals of update_camera
Forward(c) == VSub(c.camera.target, c.camera.eye)
ForwardNorm(c) == camera_normalize(Forward(c))
ForwardMag(c) == Length(Forward(c))
CameraStep(c, dt) == c.speed * dt
Right(c) == VDiv(Cross(ForwardNorm(c), c.camera.up), CAMERA_ONE)

\* forward + right * speed (sign 1) or forward - right * speed (sign -1)
StrafeDirection(c, dt, sign) ==
    VAdd(Forward(c), VMul(Scaled(Right(c), CameraStep(c, dt)), sign))

\* target - (forward +- right * speed).normalize() * forward_mag
Strafed(c, dt, sign) ==
    VSub(c.camera.target,
         Scaled(camera_normalize(StrafeDirection(c, dt, sign)),
                ForwardMag(c)))

\* an update_camera that steps forward however close the target is
EyeAfterUnguarded(c, dt) ==
    LET speed == CameraStep(c, dt)
        eye1 == IF c.is_forward_pressed
                THEN VAdd(c.camera.eye, Scaled(ForwardNorm(c), speed))
                ELSE c.camera.eye
        eye2 == IF c.is_backward_pressed
                THEN VSub(eye1, Scaled(ForwardNorm(c), speed))
                ELSE eye1
        eye3 == IF c.is_right_pressed THEN Strafed(c, dt, 1) ELSE eye2
    IN IF c.is_left_pressed THEN Strafed(c, dt, -1) ELSE eye3

\* an update_camera that strafes by adding a lateral offset to the eye
EyeAfterOffset(c, dt) ==
    LET speed == CameraStep(c, dt)
        eye1 == IF c.is_forward_pressed /\ ForwardMag(c) > speed
                THEN VAdd(c.camera.eye, Scaled(ForwardNorm(c), speed))
                ELSE c.camera.eye
        eye2 == IF c.is_backward_pressed
                THEN VSub(eye1, Scaled(ForwardNorm(c), speed))
                ELSE eye1
        eye3 == IF c.is_right_pressed
                THEN VAdd(eye2, Scaled(Right(c), speed))
                ELSE eye2
    IN IF c.is_left_pressed THEN VSub(eye3, Scaled(Right(c), speed)) ELSE eye3

\* the eye CameraController::update_camera leaves
EyeAfter(c, dt) ==
    LET speed == CameraStep(c, dt)
        eye1 == IF c.is_forward_pressed /\ ForwardMag(c) > speed
                THEN VAdd(c.camera.eye, Scaled(ForwardNorm(c), speed))
                ELSE c.camera.eye
        eye2 == IF c.is_backward_pressed
                THEN VSub(eye1, Scaled(ForwardNorm(c), speed))
                ELSE eye1
        eye3 == IF c.is_right_pressed THEN Strafed(c, dt, 1) ELSE eye2
    IN IF c.is_left_pressed THEN Strafed(c, dt, -1) ELSE eye3

\* v * k / d leaves no remainder
Divides(d, v, k) ==
    d # 0 /\ \A i \in 1..3 : (v[i] * k) % d = 0

\* a length that is a whole number of the model's units
WholeLength(v) == Length(v) * Length(v) = Dot(v, v)

\* the signs of the strafes the pressed keys ask for
StrafeSigns(c) ==
    {sign \in {-1, 1} : \/ sign = 1 /\ c.is_right_pressed
                        \/ sign = -1 /\ c.is_left_pressed}

\* what the call computes for the pressed keys, it computes without
\* rounding at the model's resolution
Representable(c, dt) ==
    /\ WholeLength(Forward(c))
    /\ Divides(ForwardMag(c), Forward(c), CAMERA_ONE)
    /\ (c.is_forward_pressed \/ c.is_backward_pressed)
          => Divides(CAMERA_ONE, ForwardNorm(c), CameraStep(c, dt))
    /\ StrafeSigns(c) # {}
          => /\ Divides(CAMERA_ONE, Cross(ForwardNorm(c), c.camera.up), 1)
             /\ Divides(CAMERA_ONE, Right(c), CameraStep(c, dt))
    /\ \A sign \in StrafeSigns(c) :
          LET w == StrafeDirection(c, dt, sign)
          IN /\ WholeLength(w)
             /\ Divides(Length(w), w, CAMERA_ONE)
             /\ Divides(CAMERA_ONE, camera_normalize(w), ForwardMag(c))

\* the keys handle_key knows, and one it does not
Keys == {"KeyW", "KeyA", "KeyS", "KeyD", "Space"}

\* CameraController::handle_key
handle_key(key_code, is_pressed) ==
    /\ controller' =
         CASE key_code = "KeyW" -> [controller EXCEPT !.is_forward_pressed = is_pressed]
           [] key_code = "KeyA" -> [controller EXCEPT !.is_left_pressed = is_pressed]
           [] key_code = "KeyS" -> [controller EXCEPT !.is_backward_pressed = is_pressed]
           [] key_code = "KeyD" -> [controller EXCEPT !.is_right_pressed = is_pressed]
           [] OTHER -> controller
    /\ last_call' = [NoCall EXCEPT !.op = "handle_key"]
    /\ UNCHANGED <<mouse_delta, animators, elapsed_time, speed_multiplier,
                   is_currently_playing, linear, progress, direction, circular,
                   angle, position, lock, rpc, upc, pending, delta_time, played,
                   current, animate_calls, reset_calls, plays>>

\* CameraController::update_camera(dt); the calls followed are the
\* ones computed without rounding that keep the eye within MaxDistance
update_camera(dt) ==
    /\ Representable(controller, dt)
    /\ LET eye == EyeAfter(controller, dt)
       IN /\ Length(VSub(controller.camera.target, eye)) <= MaxDistance * CAMERA_ONE
          /\ controller' = [controller EXCEPT !.camera.eye = eye]
    /\ last_call' = [NoCall EXCEPT !.op = "update_camera", !.delta = dt]
    /\ UNCHANGED <<mouse_delta, animators, elapsed_time, speed_multiplier,
                   is_currently_playing, linear, progress, direction, circular,
                   angle, position, lock, rpc, upc, pending, delta_time, played,
                   current, animate_calls, reset_calls, plays>>

\* a controller over a range of sensitivities, in a scene nobody animates
InitController ==
    /\ InitAnimators({}, {NEUTRAL_SPEED})
    /\ InitThreads
    /\ InitCamera(Sensitivities)
    /\ linear = NotBuilt
    /\ progress = ZERO_PROGRESS
    /\ direction = "FORWARDS"
    /\ circular = NotBuilt
    /\ angle = 0
    /\ position = [t \in Transforms |-> Pos(0, 1, 1)]

\* vertical pointer movement with any button state, rotate() after every
\* event, and changes of the smoothing factor
NextPitch ==
    \/ \E dy \in RawDeltas, pointer \in PointerStates : MouseMoved(0, dy, pointer)
    \/ rotate
    \/ \E f \in SmoothingFactors : update_smoothing_factor(f)

SpecPitch == InitController /\ [][NextPitch]_vars

\* cameras looking at the origin from the +Z axis, as the tests' cameras do,
\* from 3, 4 and 8 units away
MoveCameras ==
    {CameraNew(CameraPos(0, 0, d), CameraPos(0, 0, 0), CameraPos(0, 1, 0)) : d \in {3, 4, 8}}
\* camera speeds in whole units per second (one of them backwards), and
\* frame times in seconds
CameraSpeeds == {-1, 0, 1, 3}
CameraDeltas == {0, 1, 2, 4}

\* a controller over a range of cameras and speeds, in a scene nobody
\* animates
InitMove ==
    /\ InitAnimators({}, {NEUTRAL_SPEED})
    /\ InitThreads
    /\ \E camera \in MoveCameras, camera_speed \in CameraSpeeds :
          controller = CameraControllerNew(camera_speed * CAMERA_ONE, 1, camera)
    /\ mouse_delta = <<>>
    /\ linear = NotBuilt
    /\ progress = ZERO_PROGRESS
    /\ direction = "FORWARDS"
    /\ circular = NotBuilt
    /\ angle = 0
    /\ position = [t \in Transforms |-> Pos(0, 1, 1)]

\* keys going down and up between the frames' update_camera calls
NextMove ==
    \/ \E key_code \in Keys, is_pressed \in BOOLEAN : handle_key(key_code, is_pressed)
    \/ \E dt \in CameraDeltas : update_camera(dt)

SpecMove == InitMove /\ [][NextMove]_vars

\* a horizontal drag with the default smoothing: one event after another,
\* each handed to rotate()
YawMoved == \E dx \in RawDeltas, pointer \in Dragging : MouseMoved(dx, 0, pointer)

NextYaw ==
    \/ YawMoved
    \/ rotate

\* the drag goes on: events keep arriving and each one is handled
SpecYaw ==
    InitController /\ [][NextYaw]_vars /\ WF_vars(YawMoved) /\ WF_vars(rotate)

\* a drag to the right that also moves up and down, with the default
\* smoothing and with none
DragMoved ==
    \E dx \in {0, 10}, dy \in {0, 10}, pointer \in Dragging : MouseMoved(dx, -dy, pointer)

\* the renderer's controller with a sensitivity of one
InitDrag ==
    /\ InitAnimators({}, {NEUTRAL_SPEED})
    /\ InitThreads
    /\ InitCamera({1})
    /\ linear = NotBuilt
    /\ progress = ZERO_PROGRESS
    /\ direction = "FORWARDS"
    /\ circular = NotBuilt
    /\ angle = 0
    /\ position = [t \in Transforms |-> Pos(0, 1, 1)]

NextDrag ==
    \/ DragMoved
    \/ rotate
    \/ \E f \in {SMOOTHING_FACTOR, SMOOTHING_ONE} : update_smoothing_factor(f)

SpecDrag == InitDrag /\ [][NextDrag]_vars

----------------------------------------------------------------------------
(* Steps of the update thread, as the claims speak of them *)

\* this step is a play() call on animator a
PlayCalled(a) == upc = "iterating" /\ a \in pending /\ played'[a] = played[a] + 1

\* this step is an animate() call that fails to get the write lock
AnimateRefused(a) ==
    /\ PlayCalled(a)
    /\ is_currently_playing[a]
    /\ HasTransform(a)
    /\ lock[a].writer \/ lock[a].readers > 0

\* this step is the body of an animate() call that got the write lock
AnimateDone(a) == upc = "animating" /\ current = a /\ upc' = "iterating"

----------------------------------------------------------------------------
(* C1 *)

\* C1: when animate() of the LinearTrajectory or the CircularTrajectory is
\* called while somebody else holds the transform's lock, the call returns
\* Err in that same step (no waiting, no retry) and the strategy's progress,
\* direction and angle, the transform's position and the lock are as before
C1_ContendedAnimateIsRefused ==
    [][\A a \in animators :
          AnimateRefused(a) =>
              /\ a \notin pending'
              /\ upc' = "iterating"
              /\ last_call' = [op |-> "play", id |-> a, result |-> "Err",
                               animate |-> 1, delta |-> AnimateDelta(a),
                               reset |-> 0, target |-> <<>>]
              /\ UNCHANGED <<progress, direction, angle, position, lock>>]_vars

\* the CircularTrajectory, moved off its initial angle, is refused the lock
C1_Witness ==
    /\ last_call.op = "play"
    /\ last_call.id = "circ"
    /\ last_call.result = "Err"
    /\ lock["circ"].readers > 0
    /\ angle # 0
    /\ last_call.delta > 0

----------------------------------------------------------------------------
(* C2 *)

\* C2: in every frame Renderer::update calls play() exactly once on every
\* registered animator and returns: no animator is played twice, between
\* frames every animator has been played once (or no frame has run yet),
\* and inside update the update thread always has a step to take, whatever
\* the readers hold and whatever play() returned
C2_EveryAnimatorPlayedOnce ==
    /\ \A a \in animators : played[a] \in {0, 1}
    /\ \A a \in animators :
          upc # "idle" => (played[a] = 1 <=> (a \notin pending \/ a = current))
    /\ upc = "idle" =>
          \/ \A a \in animators : played[a] = 1
          \/ \A a \in animators : played[a] = 0 /\ elapsed_time[a] = 0
    /\ upc # "idle" => ENABLED UpdateStep

\* a frame in which the LinearTrajectory's play() returned Err and the
\* CircularTrajectory was played all the same
C2_Witness ==
    /\ upc = "iterating"
    /\ pending = {}
    /\ played["lin"] = 1
    /\ played["circ"] = 1
    /\ last_call.id = "circ"
    /\ last_call.result = "Ok"
    /\ lock["lin"].readers > 0
    /\ elapsed_time["lin"] > 0
    /\ progress = ZERO_PROGRESS
    /\ angle # 0

----------------------------------------------------------------------------
(* C3 *)

\* C3: a render-side reader of a shared transform never waits for the
\* strategy that holds the write lock
C3_ReaderNeverWaits == \A r \in Readers : rpc[r].at # "waiting"

----------------------------------------------------------------------------
(* C4 *)

----------------------------------------------------------------------------
(* C5 *)

RECURSIVE Sum(_)
Sum(seq) == IF seq = <<>> THEN 0 ELSE Head(seq) + Sum(Tail(seq))

\* the last n entries of a sequence
Last(seq, n) == SubSeq(seq, Len(seq) - n + 1, Len(seq))

\* C5: every play(dt) on a playing animator makes one animate() call with
\* delta speed_multiplier * dt and adds dt to elapsed_time: the deltas the
\* strategy received since the last reset are speed_multiplier * dt_i in
\* call order, there is one per play, and elapsed_time is the sum of the dt_i
C5_OneScaledAnimatePerPlay ==
    "mock" \in animators =>
        /\ Len(plays) <= Len(animate_calls)
        /\ reset_calls = 0 => Len(plays) = Len(animate_calls)
        /\ Last(animate_calls, Len(plays)) =
               [i \in 1..Len(plays) |-> speed_multiplier["mock"] * plays[i]]
        /\ elapsed_time["mock"] = Sum(plays)

\* two plays with different delta times at double speed, a reset behind them
C5_Witness ==
    /\ speed_multiplier["mock"] = 2
    /\ reset_calls > 0
    /\ Len(animate_calls) = 3
    /\ plays = <<1, 0>>
    /\ animate_calls[2] = 2

----------------------------------------------------------------------------
(* C6 *)

\* this step is a pause() or resume() call that changes anything at all
Toggled(a) ==
    /\ upc = "idle"
    /\ last_call'.id = a
    /\ last_call'.op \in {"pause", "resume"}
    /\ last_call' # last_call

\* C6: pause() and resume() set is_currently_playing of their animator to
\* FALSE and TRUE and change nothing else; an animator starts playing; and
\* a play() calls the strategy's animate() exactly when the animator is
\* playing, so also after a pause() followed by a resume()
C6_PauseResumeOnlyToggle ==
    [][/\ \A a \in animators :
            Toggled(a) =>
                /\ is_currently_playing' =
                       [is_currently_playing EXCEPT
                            ![a] = (last_call'.op = "resume")]
                /\ UNCHANGED <<elapsed_time, speed_multiplier, progress,
                               direction, angle, position, lock,
                               animate_calls, reset_calls>>
       /\ \A a \in animators :
            (elapsed_time[a] = 0 /\ last_call.op = "none" /\ upc = "idle"
                /\ played[a] = 0) => is_currently_playing[a]
       /\ \A a \in animators :
            (PlayCalled(a) /\ a \notin pending') =>
                last_call'.animate = IF is_currently_playing[a] THEN 1 ELSE 0
      ]_vars

\* the LinearTrajectory's animator, turned around at the end of its path,
\* has just been resumed
C6_Witness ==
    /\ last_call.op = "resume"
    /\ last_call.id = "lin"
    /\ is_currently_playing["lin"]
    /\ elapsed_time["lin"] > 0
    /\ progress = MAX_PROGRESS
    /\ direction = "BACKWARDS"

----------------------------------------------------------------------------
(* C7 *)

\* this step is a reset() call on animator a
ResetCalled(a) ==
    /\ upc = "idle"
    /\ last_call'.op = "reset"
    /\ last_call'.id = a
    /\ last_call' # last_call \/ reset_calls' # reset_calls

\* C7: Animator::reset sets elapsed_time to 0, calls the strategy's reset()
\* exactly once and leaves is_currently_playing and speed_multiplier as
\* they were
C7_ResetZeroesTimeAndDelegatesOnce ==
    [][\A a \in animators :
          ResetCalled(a) =>
              /\ elapsed_time'[a] = 0
              /\ a = "mock" => reset_calls' = reset_calls + 1
              /\ a = "lin" => progress' = ZERO_PROGRESS /\ direction' = "FORWARDS"
              /\ a = "circ" => angle' = 0
              /\ UNCHANGED <<is_currently_playing, speed_multiplier>>]_vars

\* a paused animator with time on its clock was reset a second time
C7_Witness ==
    /\ last_call.op = "reset"
    /\ last_call.id = "mock"
    /\ reset_calls = 2
    /\ ~is_currently_playing["mock"]
    /\ elapsed_time["mock"] = 0
    /\ Len(animate_calls) = 2
    /\ speed_multiplier["mock"] = 2

----------------------------------------------------------------------------
(* C8 *)

\* C8: the LinearTrajectory's progress is within [-1, 1] at all times, so
\* after every animate() and reset() call
C8_ProgressWithinBounds ==
    "lin" \in animators => progress >= MIN_PROGRESS /\ progress <= MAX_PROGRESS

\* the step asked of the last animate() call, before clamping
LastStep == FDiv(linear.speed * last_call.delta * MAX_PROGRESS, linear.distance)

\* the first animate() call of a trajectory asked for a step past the upper
\* boundary and was held at it
C8_Witness ==
    /\ "lin" \in animators
    /\ last_call.op = "play"
    /\ last_call.id = "lin"
    /\ last_call.result = "Ok"
    /\ elapsed_time["lin"] = 1
    /\ LastStep > MAX_PROGRESS
    /\ progress = MAX_PROGRESS

----------------------------------------------------------------------------
(* C9 *)

\* C9: after every animate() and reset() call of the LinearTrajectory the
\* transform's position is start_position + direction_vector * distance *
\* progress
C9_PositionFollowsProgress ==
    (last_call.id = "lin" /\ last_call.animate + last_call.reset > 0) =>
        position["lin"] = PathPosition(linear, progress)

----------------------------------------------------------------------------
(* C10 *)

\* this step is an animate() call on the LinearTrajectory, granted the lock
\* or refused it
LinearAnimateCalled == AnimateDone("lin") \/ AnimateRefused("lin")

\* C10 as claimed: with reversing, an animate() call with delta >= 0 made at
\* progress 1.0 leaves direction Backwards
C10_NextCallLeavesBackwards ==
    [][(/\ LinearAnimateCalled
        /\ linear.reversing
        /\ progress = MAX_PROGRESS
        /\ AnimateDelta("lin") >= 0) => direction' = "BACKWARDS"]_vars

\* C10 as amended: with reversing, direction is Backwards whenever progress
\* is 1.0, and an animate() call with delta >= 0 made at progress 1.0
\* leaves direction Backwards unless looping is set and the call drives
\* progress all the way to -1.0, where direction becomes Forwards
C10_NextCallLeavesBackwardsUnlessLooped ==
    [][(/\ LinearAnimateCalled
        /\ linear.reversing
        /\ progress = MAX_PROGRESS
        /\ AnimateDelta("lin") >= 0) =>
            /\ direction = "BACKWARDS"
            /\ direction' = IF linear.looping /\ progress' = MIN_PROGRESS
                            THEN "FORWARDS" ELSE "BACKWARDS"]_vars

\* a reversing LinearTrajectory on its way back from progress 1.0
C10_Witness ==
    /\ "lin" \in animators
    /\ linear.reversing
    /\ linear.speed > 0
    /\ direction = "BACKWARDS"
    /\ progress >= ZERO_PROGRESS
    /\ progress < MAX_PROGRESS
    /\ last_call.id = "lin"
    /\ last_call.result = "Ok"
    /\ last_call.delta > 0

----------------------------------------------------------------------------
(* C11 *)

\* progress as animate() clamps it, before the transition rules
ClampedProgress ==
    clamp(Advance(linear, progress, direction, AnimateDelta("lin")),
          MIN_PROGRESS, MAX_PROGRESS)

\* C11: with looping and without reversing, a successful animate() whose
\* clamped progress reaches 1.0 ends, on that same call, with progress 0,
\* the position at start_position and direction still Forwards
C11_HardLoopSnapsToStart ==
    [][(/\ AnimateDone("lin")
        /\ linear.looping
        /\ ~linear.reversing
        /\ ClampedProgress >= MAX_PROGRESS) =>
            /\ progress' = ZERO_PROGRESS
            /\ position'["lin"] = VMul(linear.start_position, MAX_PROGRESS)
            /\ direction = "FORWARDS"
            /\ direction' = "FORWARDS"]_vars

\* a hard-looping trajectory was just taken from the end of its path back
\* to the start
C11_Witness ==
    /\ "lin" \in animators
    /\ linear.looping
    /\ ~linear.reversing
    /\ last_call.op = "play"
    /\ last_call.id = "lin"
    /\ last_call.result = "Ok"
    /\ LastStep >= MAX_PROGRESS
    /\ progress = ZERO_PROGRESS
    /\ direction = "FORWARDS"
    /\ position["lin"] = VMul(linear.start_position, MAX_PROGRESS)

----------------------------------------------------------------------------
(* C12 *)

\* a trajectory that both loops and reverses
Bouncing == linear.ok /\ linear.looping /\ linear.reversing

\* C12: a looping and reversing LinearTrajectory driven by successful
\* animate() calls with a fixed positive delta turns Backwards when its
\* progress reaches 1 and Forwards when it reaches -1, and its direction is
\* Forwards infinitely often and Backwards infinitely often
C12_BouncesForever ==
    /\ [][(Bouncing /\ upc = "calling" /\ upc' = "idle") =>
            /\ progress' = MAX_PROGRESS => direction' = "BACKWARDS"
            /\ progress' = MIN_PROGRESS => direction' = "FORWARDS"]_vars
    /\ []<>(Bouncing => direction = "FORWARDS")
    /\ []<>(Bouncing => direction = "BACKWARDS")

----------------------------------------------------------------------------
(* C13 *)

\* this step is a reset() of the strategy whose last call was a reset()
\* too (the readers' steps in between change only the lock)
ResetAgain ==
    /\ last_call.op = "reset"
    /\ last_call'.op = "reset"
    /\ last_call'.id = last_call.id
    /\ last_call'.reset = 2
    /\ UNCHANGED <<lock, rpc>>

\* C13: reset() is idempotent for Stationary, Linear and Circular: a second
\* reset() in succession leaves the strategy's state and the shared
\* transform as the first left them, whatever a reader does in between
C13_ResetIsIdempotent ==
    [][ResetAgain => UNCHANGED <<progress, direction, angle, position>>]_vars

----------------------------------------------------------------------------
(* C14, C15 *)

\* the last call was a successful CircularTrajectory::animate
CircularAnimated ==
    /\ last_call.op = "animate"
    /\ last_call.id = "circ"
    /\ last_call.result = "Ok"

\* the center of the orbit of the last call: the target, or the origin
OrbitCenter ==
    IF last_call.target = <<>> THEN Pos(0, 0, 0) ELSE last_call.target[1]

\* the square of the distance between two positions
DistanceSquared(u, v) ==
    (u[1] - v[1]) * (u[1] - v[1]) + (u[2] - v[2]) * (u[2] - v[2])
        + (u[3] - v[3]) * (u[3] - v[3])

\* C14: after every successful CircularTrajectory::animate the position of
\* the shared transform lies at distance radius from the orbit center: the
\* origin without a target, the target's position with one
C14_PositionAtRadiusFromCenter ==
    CircularAnimated =>
        DistanceSquared(position["circ"], OrbitCenter)
            = (circular.radius * MAX_PROGRESS) * (circular.radius * MAX_PROGRESS)

\* C15: after every successful CircularTrajectory::animate the Y of the
\* shared transform's position is the target's Y, or 0 without a target
C15_HeightMirrorsTarget ==
    CircularAnimated =>
        position["circ"][2] = OrbitCenter[2]

----------------------------------------------------------------------------
(* C16 *)

\* this step is a CircularTrajectory::animate with delta > 0 that got the
\* lock and returns Ok
CircularAdvanced ==
    /\ upc = "calling"
    /\ current = "circ"
    /\ upc' = "idle"
    /\ delta_time > 0

\* C16 as claimed: every successful animate() with delta > 0 leaves the
\* angle strictly greater than it was
C16_AngleStrictlyIncreases ==
    [][CircularAdvanced => angle' > angle]_vars

\* C16 as amended: a successful animate() with delta > 0 leaves the angle
\* strictly greater while angle + speed * delta stays below 2 pi, and
\* otherwise leaves it wrapped: congruent to the sum and within [0, 2 pi)
C16_AngleIncreasesOrWraps ==
    [][CircularAdvanced =>
        LET sum == angle + circular.speed * delta_time
        IN IF sum < TWO_PI
           THEN angle' = sum /\ angle' > angle
           ELSE /\ angle' >= 0
                /\ angle' < TWO_PI
                /\ (sum - angle') % TWO_PI = 0]_vars

\* an animate() call has just taken the angle past 2 pi and wrapped it
C16_Witness ==
    /\ CircularAnimated
    /\ last_call.delta > 0
    /\ circular.speed * last_call.delta >= TWO_PI - 1
    /\ angle >= 0
    /\ angle < TWO_PI - 1
    /\ angle < circular.speed * last_call.delta

----------------------------------------------------------------------------
(* C17, C18 *)

\* a failed construction: an error, no strategy, the transform untouched
ConstructionFailed ==
    /\ last_call'.result = "Err"
    /\ UNCHANGED <<linear, progress, direction, circular, angle, position,
                   lock>>

\* C17: LinearTrajectory's constructor returns an error if distance or
\* speed is 0 and otherwise a strategy with progress 0 and direction
\* Forwards; CircularTrajectory's returns an error if radius <= 0 or
\* speed <= 0 and otherwise a strategy with angle 0; a failed construction
\* creates no strategy and leaves the shared transform alone
C17_ConstructionValidates ==
    [][/\ \A q \in LinearArguments, l \in BOOLEAN, r \in BOOLEAN :
            NewLinear(q, l, r) =>
                IF q[3] = 0 \/ q[4] = 0
                THEN ConstructionFailed
                ELSE /\ last_call'.result = "Ok"
                     /\ linear'.ok
                     /\ linear'.distance = q[3]
                     /\ linear'.speed = q[4]
                     /\ progress' = ZERO_PROGRESS
                     /\ direction' = "FORWARDS"
                     /\ UNCHANGED <<position, lock>>
       /\ \A rs \in CircularArguments :
            NewCircular(rs) =>
                IF rs[1] <= 0 \/ rs[2] <= 0
                THEN ConstructionFailed
                ELSE /\ last_call'.result = "Ok"
                     /\ circular'.ok
                     /\ circular'.radius = rs[1]
                     /\ circular'.speed = rs[2]
                     /\ angle' = 0
                     /\ UNCHANGED <<position, lock>>]_vars

\* a CircularTrajectory's construction has just been refused
C17_Witness ==
    /\ last_call.op = "new"
    /\ last_call.id = "circ"
    /\ last_call.result = "Err"
    /\ circular = NotBuilt
    /\ linear = NotBuilt

\* C18: every LinearTrajectory that exists has distance > 0 and speed > 0,
\* a negative distance or speed being refused at construction
C18_NegativeParametersRejected ==
    linear.ok => linear.distance > 0 /\ linear.speed > 0

----------------------------------------------------------------------------
(* Camera orientation *)

\* the pitch lies within the clamp
PitchWithinClamp ==
    /\ controller.pitch.value >= -to_radians(PITCH_CLAMP)
    /\ controller.pitch.value <= to_radians(PITCH_CLAMP)

\* C19: the pitch is within [-89 degrees, 89 degrees] in every state, hence
\* after every Pitch::add and every CameraController::rotate, whatever the
\* raw deltas, the sensitivity and the smoothing factor have been
C19_PitchStaysWithinClamp == PitchWithinClamp

\* a call whose smoothed delta alone is more than the whole clamped range
\* has left the pitch at the lower limit
C19_Witness ==
    /\ controller.pitch.previous_delta > 2 * to_radians(PITCH_CLAMP)
    /\ controller.pitch.value = -to_radians(PITCH_CLAMP)
    /\ mouse_delta = <<>>

\* the yaw lies in (-pi, pi]
YawNormalized == controller.yaw.value > -PI /\ controller.yaw.value <= PI

\* C20: a yaw that a Yaw::add call left outside (-pi, pi] is brought back
\* inside by the calls that follow
C20_YawReturnsInside == (~YawNormalized) ~> YawNormalized

\* a step that is a call of CameraController::rotate
RotateCalled == mouse_delta # <<>> /\ mouse_delta' = <<>>

\* the left button is held with the pointer over the window
PrimaryHeldOnWindow(md) ==
    md.action = "CLICKED" /\ md.button = "LEFT" /\ md.is_mouse_on_window

\* C21: a rotate() call made while the left button is not held over the
\* window (released, another button held, or pointer outside) changes
\* neither yaw, pitch, their previous smoothed deltas nor the camera
C21_RotateChangesOnlyWhenGated ==
    [][RotateCalled /\ ~PrimaryHeldOnWindow(mouse_delta[1])
         => controller' = controller]_vars

----------------------------------------------------------------------------
(* Camera movement *)

\* a step that is a call of CameraController::update_camera
UpdateCameraCalled == last_call'.op = "update_camera"

\* a state right after a call of CameraController::update_camera
UpdatedCamera == last_call.op = "update_camera"

\* the keys that are down
OnlyForwardPressed(c) ==
    /\ c.is_forward_pressed
    /\ ~c.is_backward_pressed /\ ~c.is_left_pressed /\ ~c.is_right_pressed
NoKeyPressed(c) ==
    /\ ~c.is_forward_pressed /\ ~c.is_backward_pressed
    /\ ~c.is_left_pressed /\ ~c.is_right_pressed

\* with only the forward key down the call moves the eye by the step toward
\* the target when the distance is greater than the step, and not at all
\* otherwise; the distance stays positive and does not grow
ForwardStopsShort ==
    LET step == CameraStep(controller, last_call'.delta)
        eye == controller.camera.eye
    IN /\ IF ForwardMag(controller) > step
          THEN /\ controller'.camera.eye = VAdd(eye, Scaled(ForwardNorm(controller), step))
               /\ ForwardMag(controller') = ForwardMag(controller) - step
          ELSE controller'.camera.eye = eye
       /\ ForwardMag(controller') > 0
       /\ ForwardMag(controller') <= ForwardMag(controller)

\* C22 as stated: every update_camera call with only the forward key down
\* moves the eye toward the target by speed * dt when it is farther away
\* than that, leaves it otherwise, and the distance never grows
C22_ForwardNeverReachesTarget ==
    [][UpdateCameraCalled /\ OnlyForwardPressed(controller)
         => ForwardStopsShort]_vars

\* C22, amended: the same, for a controller whose speed is not negative
C22_ForwardNeverReachesTargetAtSpeed ==
    [][UpdateCameraCalled /\ OnlyForwardPressed(controller) /\ controller.speed >= 0
         => ForwardStopsShort]_vars

\* the eye has come within one unit of the target and the last call, whose
\* step was at least that long, has left it there
C22_Witness ==
    /\ UpdatedCamera
    /\ OnlyForwardPressed(controller)
    /\ controller.speed > 0
    /\ ForwardMag(controller) = CAMERA_ONE
    /\ CameraStep(controller, last_call.delta) >= ForwardMag(controller)

\* C23: a call with the left or the right key down leaves the distance
\* between eye and target as it was, whatever other keys are down; a call
\* with no key down leaves the eye where it was
C23_StrafeKeepsDistance ==
    [][UpdateCameraCalled
         => /\ (controller.is_left_pressed \/ controller.is_right_pressed)
                 => Dot(Forward(controller'), Forward(controller'))
                      = Dot(Forward(controller), Forward(controller))
            /\ NoKeyPressed(controller)
                 => controller'.camera.eye = controller.camera.eye]_vars

\* a strafe with the forward key down as well has taken the eye off the
\* axis it started on
C23_Witness ==
    /\ UpdatedCamera
    /\ controller.is_forward_pressed
    /\ controller.is_left_pressed \/ controller.is_right_pressed
    /\ CameraStep(controller, last_call.delta) > 0
    /\ controller.camera.eye[1] # 0

----------------------------------------------------------------------------
(* Order of the animators within a frame *)

\* a step that plays the animators of a frame
FramePlayed == upc = "iterating" /\ pending = animators /\ pending' = {}

\* C24: whichever order the two animators were played in, the frame leaves
\* the animator states, the strategy states, the transforms and the
\* results of the play() calls that the other order leaves
C24_PlayOrderDoesNotMatter ==
    [][FramePlayed
         => \A order \in Orders :
              LET S == PlayAll(FrameState, order)
              IN /\ S.elapsed_time = elapsed_time'
                 /\ S.progress = progress'
                 /\ S.direction = direction'
                 /\ S.angle = angle'
                 /\ S.position = position'
                 /\ \A other \in Orders : PlayAll(FrameState, other).result = S.result]_vars

\* a frame with a positive delta has moved one transform while a reader
\* held the other, whose animator's play() failed
C24_Witness ==
    /\ upc = "iterating" /\ pending = {}
    /\ delta_time > 0
    /\ \E a \in animators, b \in animators :
          /\ a # b
          /\ is_currently_playing[a] /\ is_currently_playing[b]
          /\ lock[a].readers = 0
          /\ lock[b].readers > 0
          /\ position[a] # Pos(0, 1, 1)

----------------------------------------------------------------------------
(* The point a CircularTrajectory writes *)

\* C25: after every successful CircularTrajectory::animate the X and Z of
\* the transform are those of the orbit point at the angle the strategy
\* holds after the call
C25_PositionFromAdvancedAngle ==
    CircularAnimated =>
        /\ position["circ"][1] = OrbitCenter[1] + circular.radius * Cos(angle) * MAX_PROGRESS
        /\ position["circ"][3] = OrbitCenter[3] + circular.radius * Sin(angle) * MAX_PROGRESS

----------------------------------------------------------------------------
(* The smoothing recurrence of Yaw and Pitch *)

\* previous_delta * (1 - a) + raw * a, for the smoothing factor a
SmoothedDelta(previous_delta, raw, a) ==
    FDiv(previous_delta * (SMOOTHING_ONE - a) + raw * a, SMOOTHING_ONE)

\* C26: a Yaw::add(raw, 1 - a, a) call leaves previous_delta at
\* smoothed = previous_delta * (1 - a) + raw * a; a yaw above pi goes down
\* by 2 pi without smoothed being added, any other yaw goes up by smoothed;
\* the Pitch of the same controller is moved by its own add() call alone,
\* from its own value and previous_delta
C26_YawAddRecurrence ==
    [][(/\ RotateCalled
        /\ mouse_delta[1].is_mouse_on_window
        /\ mouse_delta[1].action = "CLICKED") =>
         LET md == mouse_delta[1]
             a == controller.smoothing_factor
             smoothed == SmoothedDelta(controller.yaw.previous_delta,
                                       md.delta_position[1] * controller.sensitivity, a)
             pitch_smoothed == SmoothedDelta(controller.pitch.previous_delta,
                                             md.delta_position[2] * controller.sensitivity, a)
         IN /\ controller'.yaw.previous_delta = smoothed
            /\ controller'.yaw.value =
                 IF controller.yaw.value > PI
                 THEN controller.yaw.value - TAU
                 ELSE controller.yaw.value + smoothed
            /\ controller'.pitch.previous_delta = pitch_smoothed
            /\ controller'.pitch.value =
                 clamp(controller.pitch.value - pitch_smoothed,
                       -to_radians(PITCH_CLAMP), to_radians(PITCH_CLAMP))]_vars

\* a call found the yaw above pi and took 2 pi off it, leaving the smoothed
\* delta it computed out of the yaw, while the pitch moved by its own
\* smoothed delta
C26_Witness ==
    /\ mouse_delta = <<>>
    /\ controller.yaw.value < -PI \div 2
    /\ controller.yaw.value > PI - TAU
    /\ controller.yaw.previous_delta > 0
    /\ controller.pitch.previous_delta # 0
    /\ controller.pitch.previous_delta # controller.yaw.previous_delta

----------------------------------------------------------------------------
(* The direction of a path *)

\* the last call was a successful LinearTrajectory::animate
LinearAnimated ==
    /\ last_call.op = "animate"
    /\ last_call.id = "lin"
    /\ last_call.result = "Ok"

\* where the transform is, seen from the start of the path
Displacement == VSub(position["lin"], VMul(linear.start_position, MAX_PROGRESS))

----------------------------------------------------------------------------
(* The elapsed time of an Animator whose strategy fails *)

----------------------------------------------------------------------------
(* What a reader sees of a hard-looping path *)

\* the LinearTrajectory loops without reversing
HardLooping == "lin" \in animators /\ linear.looping /\ ~linear.reversing

\* start_position + direction_vector * distance
EndPoint == PathPosition(linear, MAX_PROGRESS)

\* reader r holds the read lock of transform t
Reading(r, t) == rpc[r].at = "reading" /\ rpc[r].t = t

\* C29: with looping and without reversing, no reader holding the read lock
\* of the transform finds it at the end-point of the path, and progress is
\* below 1 whenever the update thread is not inside animate()
C29_EndPointNeverObservable ==
    HardLooping =>
        /\ \A r \in Readers : Reading(r, "lin") => position["lin"] # EndPoint
        /\ upc # "animating" => progress < MAX_PROGRESS

\* a reader holds the transform right after the animate() call that reached
\* the end of the path, and finds it at the start
C29_Witness ==
    /\ HardLooping
    /\ \E r \in Readers : Reading(r, "lin")
    /\ last_call.op = "play"
    /\ last_call.id = "lin"
    /\ last_call.result = "Ok"
    /\ last_call.delta > 0
    /\ LastStep >= MAX_PROGRESS
    /\ progress = ZERO_PROGRESS
    /\ position["lin"] = VMul(linear.start_position, MAX_PROGRESS)

----------------------------------------------------------------------------
(* A path that does not loop *)

\* a trajectory that does not loop
NonLooping == linear.ok /\ ~linear.looping

\* where the claim has a non-looping trajectory stop
AtRest ==
    IF linear.reversing
    THEN progress = MIN_PROGRESS /\ direction = "BACKWARDS"
    ELSE progress = MAX_PROGRESS /\ direction = "FORWARDS"

\* this step is the return of a successful animate() of the LinearTrajectory
LinearAnimateReturned == upc = "calling" /\ current = "lin" /\ upc' = "idle"

\* C30: a non-looping LinearTrajectory driven by successful animate() calls
\* with a fixed positive delta comes to rest for good: at progress 1 facing
\* Forwards without reversing; with reversing it first turns Backwards at
\* progress 1 and then rests at progress -1 facing Backwards; at rest a call
\* changes neither progress, direction nor position
C30_ComesToRest ==
    /\ <>[](NonLooping => AtRest)
    /\ <>(NonLooping /\ linear.reversing =>
             progress = MAX_PROGRESS /\ direction = "BACKWARDS")
    /\ [][(NonLooping /\ AtRest /\ LinearAnimateReturned) =>
             UNCHANGED <<progress, direction, position>>]_vars

============================================================================
